---- MODULE Spec2Model ----
(***************************************************************************)
(* Model of the RMIT Harvard citation bot (src/main.py): the identifier    *)
(* extractor, the author-name normaliser, the three reference formatters   *)
(* and the two request handlers (auto_cite, citedoi).                      *)
(*                                                                         *)
(* Python strings are sequences of one-character strings; None is the      *)
(* one-element sequence <<"None">>, which no Python string equals.  An     *)
(* absent year is 0 (Python tests years for truth, and 0 is false too).    *)
(***************************************************************************)
EXTENDS Integers, Sequences, FiniteSets, TLC

VARIABLES pc, handler, branch, text, doi, callLog, bits, meta, exc, replies,
          escaped, template, arg, res

vars == <<pc, handler, branch, text, doi, callLog, bits, meta, exc, replies,
          escaped, template, arg, res>>

handlerVars == <<pc, handler, branch, text, doi, callLog, bits, meta, exc,
                 replies, escaped, template>>

pureVars == <<arg, res>>

\* ------------------------------------------------------------------
\* Python values and string primitives
\* ------------------------------------------------------------------
None == <<"None">>

\* Python truth of an optional string: None and "" are false.
Truthy(s) == s # None /\ s # <<>>

\* a or b
Or(a, b) == IF Truthy(a) THEN a ELSE b

LowerLetters == <<"a", "b", "c", "d", "e", "f", "g", "h", "i", "j", "k", "l", "m", "n", "o", "p", "q", "r", "s", "t", "u", "v", "w", "x", "y", "z">>

UpperLetters == <<"A", "B", "C", "D", "E", "F", "G", "H", "I", "J", "K", "L", "M", "N", "O", "P", "Q", "R", "S", "T", "U", "V", "W", "X", "Y", "Z">>

Digits == {"0", "1", "2", "3", "4", "5", "6", "7", "8", "9"}

IndexIn(c, alphabet) ==
    IF \E i \in 1..Len(alphabet) : alphabet[i] = c
    THEN CHOOSE i \in 1..Len(alphabet) : alphabet[i] = c
    ELSE 0

\* str.isalpha() of one character
IsAlpha(c) == IndexIn(c, LowerLetters) > 0 \/ IndexIn(c, UpperLetters) > 0

\* str.isspace() of one character
IsSpace(c) == c = " "

LowerChar(c) == IF IndexIn(c, UpperLetters) > 0
                THEN LowerLetters[IndexIn(c, UpperLetters)] ELSE c

UpperChar(c) == IF IndexIn(c, LowerLetters) > 0
                THEN UpperLetters[IndexIn(c, LowerLetters)] ELSE c

\* str.lower()
Lower(s) == [i \in 1..Len(s) |-> LowerChar(s[i])]

\* s[i:j] with 1-based inclusive bounds; empty when i > j
Slice(s, i, j) == IF i > j THEN <<>> ELSE SubSeq(s, i, j)

\* sub occurs in s starting at position i
OccursAt(s, sub, i) ==
    /\ i >= 1
    /\ i + Len(sub) - 1 <= Len(s)
    /\ \A k \in 1..Len(sub) : s[i + k - 1] = sub[k]

\* sub in s
Contains(s, sub) == \E i \in 1..(Len(s) + 1) : OccursAt(s, sub, i)

\* s.find(sub) + 1, or 0 when sub does not occur
Find(s, sub) ==
    IF Contains(s, sub)
    THEN CHOOSE i \in 1..(Len(s) + 1) :
            /\ OccursAt(s, sub, i)
            /\ \A j \in 1..(i - 1) : ~OccursAt(s, sub, j)
    ELSE 0

StartsWith(s, pre) == OccursAt(s, pre, 1)

EndsWith(s, suf) == OccursAt(s, suf, Len(s) - Len(suf) + 1)

RECURSIVE LStrip(_)
LStrip(s) == IF s # <<>> /\ IsSpace(Head(s)) THEN LStrip(Tail(s)) ELSE s

RECURSIVE RStrip(_)
RStrip(s) == IF s # <<>> /\ IsSpace(s[Len(s)])
             THEN RStrip(SubSeq(s, 1, Len(s) - 1)) ELSE s

\* str.strip()
Strip(s) == RStrip(LStrip(s))

\* str.split(): the whitespace-separated tokens
RECURSIVE Split(_)
Split(s) ==
    LET t == LStrip(s)
        n == IF \E i \in 1..Len(t) : IsSpace(t[i])
             THEN (CHOOSE i \in 1..Len(t) :
                      IsSpace(t[i]) /\ \A j \in 1..(i - 1) : ~IsSpace(t[j])) - 1
             ELSE Len(t)
    IN IF t = <<>> THEN <<>>
       ELSE <<SubSeq(t, 1, n)>> \o Split(Slice(t, n + 1, Len(t)))

\* sep.join(parts)
RECURSIVE Join(_, _)
Join(sep, parts) ==
    IF parts = <<>> THEN <<>>
    ELSE IF Len(parts) = 1 THEN parts[1]
    ELSE parts[1] \o sep \o Join(sep, Tail(parts))

\* str(n) for a natural number
RECURSIVE Str(_)
Str(n) ==
    LET d == <<"0", "1", "2", "3", "4", "5", "6", "7", "8", "9">>
    IN IF n < 10 THEN <<d[n + 1]>> ELSE Str(n \div 10) \o <<d[(n % 10) + 1]>>

\* ------------------------------------------------------------------
\* small utilities (src/main.py 38-64)
\* ------------------------------------------------------------------
RECURSIVE EscapeChars(_)
EscapeChars(s) ==
    IF s = <<>> THEN <<>>
    ELSE (CASE Head(s) = "&" -> <<"&", "a", "m", "p", ";">>
            [] Head(s) = "<" -> <<"&", "l", "t", ";">>
            [] Head(s) = ">" -> <<"&", "g", "t", ";">>
            [] OTHER -> <<Head(s)>>) \o EscapeChars(Tail(s))

\* html.escape(s or "", quote=False)
html_escape(s) == EscapeChars(Or(s, <<>>))

\* the access date printed by today_dmy(), fixed for one run
today_dmy == <<"2", " ", "M", "a", "y", " ", "2", "0", "2", "4">>

org_markers == <<<<" ", "i", "n", "c">>,
                 <<" ", "l", "t", "d">>,
                 <<" ", "l", "l", "c">>,
                 <<" ", "p", "t", "e">>,
                 <<"&">>,
                 <<" ", "c", "o", "m", "p", "a", "n", "y">>,
                 <<" ", "u", "n", "i", "v", "e", "r", "s", "i", "t", "y">>,
                 <<" ", "g", "o", "v">>,
                 <<" ", "m", "i", "n", "i", "s", "t", "r", "y">>,
                 <<" ", "p", "r", "e", "s", "s">>,
                 <<" ", "b", "u", "r", "e", "a", "u">>,
                 <<" ", "o", "f", "f", "i", "c", "e">>,
                 <<" ", "d", "e", "p", "a", "r", "t", "m", "e", "n", "t">>>>

\* [p[0].upper() + "." for p in parts if p and p[0].isalpha()]
RECURSIVE InitialsOf(_)
InitialsOf(parts) ==
    IF parts = <<>> THEN <<>>
    ELSE (IF Head(parts) # <<>> /\ IsAlpha(Head(parts)[1])
          THEN <<(<<UpperChar(Head(parts)[1]), ".">>)>> ELSE <<>>)
         \o InitialsOf(Tail(parts))

format_person_name(name) ==
    IF ~Truthy(name) THEN None
    ELSE LET n == Strip(name)
             lowered == Lower(n)
             parts == Split(n)
             initials == Join(<<" ">>, InitialsOf(SubSeq(parts, 1, Len(parts) - 1)))
         IN IF Contains(n, <<",">>)
               \/ \E m \in 1..Len(org_markers) : Contains(lowered, org_markers[m])
            THEN n
            ELSE IF Len(parts) < 2 THEN n
            ELSE parts[Len(parts)] \o <<",", " ">> \o initials

\* ------------------------------------------------------------------
\* DOI / Crossref (src/main.py 138-143, 203-205) and urlparse
\* ------------------------------------------------------------------
MinDoiDigits == 4

MaxDoiDigits == 9

\* length of the run of digits of s that starts at position i
RECURSIVE DigitRun(_, _)
DigitRun(s, i) ==
    IF i <= Len(s) /\ s[i] \in Digits THEN 1 + DigitRun(s, i + 1) ELSE 0

\* [^\s<>"]
IsDoiTokenChar(c) == ~IsSpace(c) /\ c \notin {"<", ">", "\""}

RECURSIVE DoiTokenRun(_, _)
DoiTokenRun(s, i) ==
    IF i <= Len(s) /\ IsDoiTokenChar(s[i]) THEN 1 + DoiTokenRun(s, i + 1) ELSE 0

\* the regular expression 10\.\d{4,9}/[^\s<>"]+ matches at position i.  The
\* digits consumed are the whole run, because the next character must be "/".
DoiMatchesAt(s, i) ==
    LET d == DigitRun(s, i + 3)
    IN /\ OccursAt(s, <<"1", "0", ".">>, i)
       /\ d >= MinDoiDigits /\ d <= MaxDoiDigits
       /\ i + 3 + d <= Len(s) /\ s[i + 3 + d] = "/"
       /\ DoiTokenRun(s, i + 4 + d) >= 1

extract_doi(s) ==
    IF ~Truthy(s) THEN None
    ELSE IF \E i \in 1..Len(s) : DoiMatchesAt(s, i)
    THEN LET i == CHOOSE i \in 1..Len(s) :
                     DoiMatchesAt(s, i) /\ \A j \in 1..(i - 1) : ~DoiMatchesAt(s, j)
             d == DigitRun(s, i + 3)
         IN SubSeq(s, i, i + 3 + d + DoiTokenRun(s, i + 4 + d))
    ELSE None

\* re.search(r"/papers/w(\d+)", url or "")
NberMatchesAt(s, i) ==
    OccursAt(s, <<"/", "p", "a", "p", "e", "r", "s", "/", "w">>, i) /\ DigitRun(s, i + 9) >= 1

detect_nber_wp(url) ==
    LET s == Or(url, <<>>)
    IN IF \E i \in 1..Len(s) : NberMatchesAt(s, i)
       THEN LET i == CHOOSE i \in 1..Len(s) :
                        NberMatchesAt(s, i) /\ \A j \in 1..(i - 1) : ~NberMatchesAt(s, j)
            IN SubSeq(s, i + 9, i + 8 + DigitRun(s, i + 9))
       ELSE None

IsSchemeChar(c) == IsAlpha(c) \/ c \in Digits \/ c \in {"+", "-", "."}

\* urlparse(url).netloc: drop a leading scheme, then take what follows "//"
\* up to the first "/", "?" or "#"
Netloc(url) ==
    LET colon == Find(url, <<":">>)
        hasScheme == /\ colon > 1
                     /\ IsAlpha(url[1])
                     /\ \A k \in 1..(colon - 1) : IsSchemeChar(url[k])
        rest == IF hasScheme THEN Slice(url, colon + 1, Len(url)) ELSE url
        IsDelim(k) == rest[k] \in {"/", "?", "#"}
        delim == IF \E k \in 3..Len(rest) : IsDelim(k)
                 THEN CHOOSE k \in 3..Len(rest) :
                         IsDelim(k) /\ \A j \in 3..(k - 1) : ~IsDelim(j)
                 ELSE Len(rest) + 1
    IN IF StartsWith(rest, <<"/", "/">>) THEN Slice(rest, 3, delim - 1) ELSE <<>>

\* ------------------------------------------------------------------
\* RMIT Harvard formatters (src/main.py 255-306)
\* ------------------------------------------------------------------
\* f"({year})" if year else "(n.d.)"
YearText(year) == IF year # 0 THEN <<"(">> \o Str(year) \o <<")">> ELSE <<"(", "n", ".", "d", ".", ")">>

build_rmit_web(author_display, year, title, site_name, url) ==
    LET y == YearText(year)
        t == html_escape(Or(title, url))
        s == html_escape(Or(site_name, Netloc(url)))
        accessed == today_dmy
    IN html_escape(author_display) \o <<" ">> \o y \o <<" ", "<", "i", ">">> \o t \o <<"<", "/", "i", ">", ",", " ">>
       \o s \o <<" ", "w", "e", "b", "s", "i", "t", "e", ",", " ", "a", "c", "c", "e", "s", "s", "e", "d", " ">> \o accessed \o <<".", " ">>
       \o html_escape(url) \o <<".">>

build_rmit_working_paper(author_display, year, title, series, publisher, url) ==
    LET y == YearText(year)
        accessed == today_dmy
    IN html_escape(author_display) \o <<" ">> \o y \o <<" ", "<", "i", ">">>
       \o html_escape(Or(title, url)) \o <<"<", "/", "i", ">", ",", " ">> \o html_escape(series)
       \o <<",", " ">> \o html_escape(publisher) \o <<",", " ", "a", "c", "c", "e", "s", "s", "e", "d", " ">> \o accessed
       \o <<".", " ">> \o html_escape(url) \o <<".">>

build_rmit_journal_article(author_display, year, title, journal, volume, issue, pages, url_or_doi) ==
    LET y == YearText(year)
        vol_issue == IF Truthy(volume) /\ Truthy(issue)
                     THEN volume \o <<"(">> \o issue \o <<")">>
                     ELSE IF Truthy(volume) THEN volume ELSE <<>>
        parts == (IF Truthy(vol_issue) THEN <<vol_issue>> ELSE <<>>)
                 \o (IF Truthy(pages) THEN <<pages>> ELSE <<>>)
        tail == IF parts # <<>> THEN Join(<<",", " ">>, parts) ELSE <<>>
        acc == today_dmy
        end == RStrip(<<",", " ", "a", "c", "c", "e", "s", "s", "e", "d", " ">> \o acc \o <<".", " ">>
                      \o html_escape(Or(url_or_doi, <<>>)))
        title_q == html_escape(Or(title, <<>>))
        jour == html_escape(Or(journal, <<"J", "o", "u", "r", "n", "a", "l">>))
        core == html_escape(author_display) \o <<" ">> \o y \o <<" ", "'">> \o title_q
                \o <<"'", ",", " ", "<", "i", ">">> \o jour \o <<"<", "/", "i", ">">>
        core2 == IF tail # <<>> THEN core \o <<",", " ">> \o tail ELSE core
    IN core2 \o (IF EndsWith(end, <<".">>) THEN end ELSE end \o <<".">>)

build_intext(author_display, year) ==
    LET y == IF year # 0 THEN Str(year) ELSE <<"n", ".", "d", ".">>
        comma == Find(author_display, <<",">>)
        lead0 == IF comma > 0 THEN Slice(author_display, 1, comma - 1)
                 ELSE author_display
        lead == Join(<<" ">>, Split(lead0))
    IN <<"(">> \o html_escape(lead) \o <<" ">> \o y \o <<")">>

\* ------------------------------------------------------------------
\* Registry client (src/main.py 145-200)
\* ------------------------------------------------------------------
\* [given + " " + family | family | given] for each author dict
RECURSIVE CrossrefNames(_)
CrossrefNames(authors) ==
    IF authors = <<>> THEN <<>>
    ELSE LET family == Strip(Or(Head(authors).family, <<>>))
             given == Strip(Or(Head(authors).given, <<>>))
         IN (IF family # <<>> /\ given # <<>> THEN <<given \o <<" ">> \o family>>
             ELSE IF family # <<>> THEN <<family>>
             ELSE IF given # <<>> THEN <<given>>
             ELSE <<>>) \o CrossrefNames(Tail(authors))

author_list_from_crossref(authors) ==
    LET names == CrossrefNames(authors)
        formatted == [i \in 1..Len(names) |-> format_person_name(names[i])]
    IN IF names = <<>> THEN None
       ELSE IF Len(formatted) = 1 THEN formatted[1]
       ELSE Join(<<",", " ">>, SubSeq(formatted, 1, Len(formatted) - 1))
            \o <<" ", "&", " ">> \o formatted[Len(formatted)]

\* the year of the first of published-print, published-online, issued
FirstYear(item) ==
    IF item.published_print # 0 THEN item.published_print
    ELSE IF item.published_online # 0 THEN item.published_online
    ELSE item.issued

\* (item.get(k) or "").strip() or None
StripOrNone(v) == Or(Strip(Or(v, <<>>)), None)

\* " ".join(item.get(k) or []) or None
JoinOrNone(v) == Or(Join(<<" ">>, v), None)

\* the record cite_from_crossref returns for a registry item
cite_from_crossref(item, d) ==
    [title |-> JoinOrNone(item.title),
     year |-> FirstYear(item),
     author_display |-> author_list_from_crossref(item.author),
     publisher |-> StripOrNone(item.publisher),
     container |-> JoinOrNone(item.container_title),
     volume |-> StripOrNone(item.volume),
     issue |-> StripOrNone(item.issue),
     pages |-> StripOrNone(item.page),
     series |-> Or(item.number, None),
     type |-> Lower(Or(item.type, <<>>)),
     doi |-> d,
     doi_url |-> <<"h", "t", "t", "p", "s", ":", "/", "/", "d", "o", "i", ".", "o", "r", "g", "/">> \o d]

\* ------------------------------------------------------------------
\* Page scraper (src/main.py 208-252): the merge of the page's sources
\* ------------------------------------------------------------------
scrape_citation_bits(page, url) ==
    LET title_hw == Or(page.citation_title, None)
        title == Or(page.t2, Or(title_hw, Or(page.og_title, page.title_tag)))
        site_name == Or(page.s2, page.og_site_name)
        author_meta == IF page.a2 # None THEN page.a2
                       ELSE IF page.authors_hw # <<>> THEN page.authors_hw[1]
                       ELSE page.author_tag
        host == Netloc(url)
        author_display == format_person_name(Or(author_meta, Or(site_name, host)))
        year == IF page.y2 # 0 THEN page.y2
                ELSE IF page.year_hw # 0 THEN page.year_hw
                ELSE page.date_year
    IN [title |-> title,
        site_name |-> site_name,
        author_display |-> author_display,
        year |-> year,
        doi_meta |-> page.doi_meta,
        nber_no |-> detect_nber_wp(url)]

\* ------------------------------------------------------------------
\* Exceptions: the classes the handlers name and what each derives from
\* ------------------------------------------------------------------
\* requests' hierarchy: ConnectTimeout derives from both ConnectionError and
\* Timeout; the JSON error of Response.json() is a RequestException in
\* current releases and a plain ValueError in older ones.
Bases(cls) ==
    CASE cls = "HTTPError" -> {"RequestException"}
      [] cls = "ConnectionError" -> {"RequestException"}
      [] cls = "Timeout" -> {"RequestException"}
      [] cls = "ConnectTimeout" -> {"ConnectionError", "Timeout"}
      [] cls = "ReadTimeout" -> {"Timeout"}
      [] cls = "JSONDecodeError" -> {"RequestException"}
      [] cls = "RequestException" -> {"Exception"}
      [] cls = "ValueError" -> {"Exception"}
      [] cls = "AttributeError" -> {"Exception"}
      [] OTHER -> {}

RECURSIVE IsInstance(_, _)
IsInstance(cls, of) == cls = of \/ \E b \in Bases(cls) : IsInstance(b, of)

\* what a failed fetch raises: raise_for_status() for an error status, the
\* transport for the rest, the payload handling for a malformed answer
Raised(failure) ==
    CASE failure = "status" -> {"HTTPError"}
      [] failure = "connect_fail" -> {"ConnectionError"}
      [] failure = "connect_timeout" -> {"ConnectTimeout"}
      [] failure = "read_timeout" -> {"ReadTimeout"}
      [] failure = "bad_json" -> {"JSONDecodeError", "ValueError"}
      [] failure = "bad_shape" -> {"AttributeError"}

TransportFailures == {"status", "connect_fail", "connect_timeout", "read_timeout"}

\* the ways cite_from_crossref fails (165-167 and the field handling below)
RegistryFailures == TransportFailures \cup {"bad_json", "bad_shape"}

\* the ways scrape_citation_bits fails (209 and the extraction below)
PageFailures == TransportFailures \cup {"bad_shape"}

\* ------------------------------------------------------------------
\* Replies
\* ------------------------------------------------------------------
MsgUsage == "Usage: /citedoi <DOI>\nExample: /citedoi 10.1016/j.marpol.2023.105848"

MsgDoiFailedCommand == "Could not fetch DOI metadata (%s). If you have the article URL, paste it, or use /fix to override fields."

MsgDoiFailedAuto == "Could not fetch DOI metadata (%s). If you have the article's web link, paste it; otherwise use /citedoi <DOI> or /fix to override."

MsgSiteRefused == "That site refused the request (HTTP error). If this is a journal article (e.g., ScienceDirect/Wiley), please paste the DOI (like 10.xxxx/xxxxx) or a doi.org link."

MsgNetworkError == "Network error trying to reach that site. Check your internet or try again. If it's a journal article, paste the DOI instead."

MsgTimedOut == "Timed out fetching that page. If it's an academic article, paste the DOI."

MsgApology == "Sorry, I couldn't build a citation for that page. If it's academic, paste the DOI; otherwise you can /fix author=... year=... title=... site=..."

\* reply_text(msg), with the exception's class name where the text has one
TextReply(msg, name) ==
    [mode |-> "text", msg |-> msg, excname |-> name, ref |-> <<>>, intext |-> <<>>]

\* reply_html("<b>Reference</b>\n{ref}\n\n<b>In-text</b>\n{intext}")
HtmlReply(ref, intext) ==
    [mode |-> "html", msg |-> "", excname |-> "", ref |-> ref, intext |-> intext]

\* ------------------------------------------------------------------
\* Formatting a registry record: the three places that do it
\* ------------------------------------------------------------------
JournalFromMeta(m) ==
    build_rmit_journal_article(
        Or(m.author_display, Or(m.publisher, <<"A", "u", "t", "h", "o", "r">>)),
        m.year, m.title, m.container, m.volume, m.issue, m.pages, m.doi_url)

WorkingPaperFromMeta(m) ==
    LET series == m.series
        publisher == Or(m.publisher, Or(m.container, <<"P", "u", "b", "l", "i", "s", "h", "e", "r">>))
    IN build_rmit_working_paper(
        Or(m.author_display, publisher), m.year, m.title, series, publisher, m.doi_url)

WebFromMeta(m) ==
    LET site_name == Or(m.container, Or(m.publisher, <<"P", "u", "b", "l", "i", "s", "h", "e", "r">>))
    IN build_rmit_web(
        Or(m.author_display, site_name), m.year, m.title, site_name, m.doi_url)

IntextFromMeta(m) ==
    build_intext(Or(m.author_display, Or(m.publisher, <<"A", "u", "t", "h", "o", "r">>)), m.year)

RefFromMeta(tpl, m) ==
    CASE tpl = "journal_article" -> JournalFromMeta(m)
      [] tpl = "working_paper" -> WorkingPaperFromMeta(m)
      [] tpl = "web" -> WebFromMeta(m)

\* citedoi, 331-346
citedoi_template(m) ==
    IF Truthy(m.container) /\ (Truthy(m.volume) \/ Truthy(m.pages))
    THEN "journal_article"
    ELSE IF Truthy(m.series) THEN "working_paper"
    ELSE "web"

\* auto_cite with an identifier in the message, 366-381
auto_cite_doi_template(m) ==
    IF Truthy(m.container) /\ (Truthy(m.volume) \/ Truthy(m.pages))
    THEN "journal_article"
    ELSE IF Truthy(m.series) THEN "working_paper"
    ELSE "web"

\* a slip at one of the three places: the volume-or-pages test left out
auto_cite_page_doi_template_NoVolumeTest(m) ==
    IF Truthy(m.container) THEN "journal_article"
    ELSE IF Truthy(m.series) THEN "working_paper"
    ELSE "web"

\* auto_cite with an identifier found in the page, 402-417
auto_cite_page_doi_template(m) ==
    IF Truthy(m.container) /\ (Truthy(m.volume) \/ Truthy(m.pages))
    THEN "journal_article"
    ELSE IF Truthy(m.series) THEN "working_paper"
    ELSE "web"

\* auto_cite for a page without an identifier, 423-432
auto_cite_page_template(b) ==
    IF Truthy(b.nber_no) THEN "working_paper" ELSE "web"

NberSeries(b) == <<"N", "B", "E", "R", " ", "W", "o", "r", "k", "i", "n", "g", " ", "P", "a", "p", "e", "r", " ", "N", "o", ".", " ">> \o b.nber_no

NberPublisher == <<"N", "a", "t", "i", "o", "n", "a", "l", " ", "B", "u", "r", "e", "a", "u", " ", "o", "f", " ", "E", "c", "o", "n", "o", "m", "i", "c", " ", "R", "e", "s", "e", "a", "r", "c", "h">>

RefFromBits(tpl, b, url) ==
    IF tpl = "working_paper"
    THEN build_rmit_working_paper(b.author_display, b.year, b.title,
                                  NberSeries(b), NberPublisher, url)
    ELSE build_rmit_web(b.author_display, b.year, b.title, b.site_name, url)

\* ------------------------------------------------------------------
\* The inputs of a request: the message, the page, the registry's answer
\* ------------------------------------------------------------------
DoiText == <<"1", "0", ".", "1", "2", "3", "4", "/", "a", "b">>

\* message texts that reach auto_cite
AutoTexts ==
    {<<>>, <<"h", "i">>, <<"/", "x">>, DoiText, <<"h", "t", "t", "p", "s", ":", "/", "/", "d", "o", "i", ".", "o", "r", "g", "/", "1", "0", ".", "1", "2", "3", "4", "/", "a", "b">>,
     <<"h", "t", "t", "p", ":", "/", "/", "a", ".", "b", "/", "x">>, <<"H", "T", "T", "P", "S", ":", "/", "/", "n", ".", "o", "/", "p", "a", "p", "e", "r", "s", "/", "w", "1", "2">>}

\* the joined arguments of /citedoi
CiteArgs == {<<>>, <<"d", "o", "i">>, DoiText, <<" ", "1", "0", ".", "1", "2", "3", "4", "5", "/", "c", " ", "d">>}

\* what the sources of a fetched page hold: the linked-data block (t2, s2,
\* a2, y2), the citation_* tags, the social tags, <title>, the author tag
\* and the year parsed from the date tags
Pages ==
    [t2 : {None, <<"T">>},
     s2 : {None, <<"S">>},
     a2 : {None, <<"A", " ", "B">>, <<" ">>},
     y2 : {0, 2020},
     citation_title : {None, <<"H">>},
     authors_hw : {<<>>, <<<<"X">>>>},
     doi_meta : {None, <<"x">>, DoiText},
     year_hw : {0},
     og_title : {None},
     title_tag : {None, <<"P">>},
     og_site_name : {None},
     author_tag : {None},
     date_year : {0}]

\* the "message" object of a registry answer
RegistryItems ==
    [title : {<<>>, <<<<"<", "T">>>>},
     published_print : {0, 2019},
     published_online : {0},
     issued : {0, 2020},
     author : {<<>>, <<[given |-> <<"A">>, family |-> <<"B">>]>>},
     publisher : {None, <<" ", "P">>},
     container_title : {<<>>, <<<<"C">>>>},
     volume : {None, <<"<", "b", ">">>},
     issue : {None, <<"2">>},
     page : {None, <<"3">>},
     number : {None, <<"N">>},
     type : {<<"R", "e", "p", "o", "r", "t">>}]

NoBits == [absent |-> TRUE]

NoMeta == [absent |-> TRUE]

\* ------------------------------------------------------------------
\* The handlers, one step per stage of a request
\* ------------------------------------------------------------------
Idle ==
    /\ pc = "idle" /\ handler = "none" /\ branch = "none" /\ text = <<>>
    /\ doi = None /\ callLog = <<>> /\ bits = NoBits /\ meta = NoMeta
    /\ exc = "none" /\ replies = <<>> /\ escaped = FALSE /\ template = "none"

Init == Idle /\ arg = None /\ res = <<>>

\* an update is dispatched to its handler; nothing of the previous request
\* is kept
Receive ==
    /\ pc \in {"idle", "done"}
    /\ \E h \in {"auto_cite", "citedoi"} :
         /\ handler' = h
         /\ text' \in (IF h = "auto_cite" THEN AutoTexts ELSE CiteArgs)
    /\ pc' = "entry"
    /\ branch' = "none" /\ doi' = None /\ callLog' = <<>> /\ bits' = NoBits
    /\ meta' = NoMeta /\ exc' = "none" /\ replies' = <<>> /\ escaped' = FALSE
    /\ template' = "none"
    /\ UNCHANGED pureVars

\* auto_cite 357-363, 392-393: nothing, the identifier route or the URL route
auto_cite_route ==
    /\ pc = "entry" /\ handler = "auto_cite"
    /\ LET t == Strip(text)
           d == extract_doi(t)
       IN IF t = <<>> \/ StartsWith(t, <<"/">>)
          THEN pc' = "done" /\ UNCHANGED <<branch, doi>>
          ELSE IF d # None
          THEN pc' = "lookup" /\ branch' = "doi" /\ doi' = d
          ELSE IF StartsWith(Lower(t), <<"h", "t", "t", "p", ":", "/", "/">>) \/ StartsWith(Lower(t), <<"h", "t", "t", "p", "s", ":", "/", "/">>)
          THEN pc' = "scrape" /\ branch' = "url" /\ UNCHANGED doi
          ELSE pc' = "done" /\ UNCHANGED <<branch, doi>>
    /\ UNCHANGED <<handler, text, callLog, bits, meta, exc, replies, escaped,
                   template, pureVars>>

\* citedoi 323-327
citedoi_route ==
    /\ pc = "entry" /\ handler = "citedoi"
    /\ LET d == extract_doi(Strip(text))
       IN IF d = None
          THEN /\ replies' = Append(replies, TextReply(MsgUsage, ""))
               /\ pc' = "done" /\ UNCHANGED <<branch, doi>>
          ELSE /\ pc' = "lookup" /\ branch' = "citedoi" /\ doi' = d
               /\ UNCHANGED replies
    /\ UNCHANGED <<handler, text, callLog, bits, meta, exc, escaped, template,
                   pureVars>>

\* cite_from_crossref(doi): one registry call, answered or failed
registry_lookup ==
    /\ pc = "lookup"
    /\ \/ \E item \in RegistryItems :
            /\ callLog' = Append(callLog, [call |-> "registry", failure |-> "none"])
            /\ meta' = cite_from_crossref(item, doi)
            /\ pc' = "have_meta"
            /\ UNCHANGED exc
       \/ \E f \in RegistryFailures : \E e \in Raised(f) :
            /\ callLog' = Append(callLog, [call |-> "registry", failure |-> f])
            /\ exc' = e
            /\ pc' = "except"
            /\ UNCHANGED meta
    /\ UNCHANGED <<handler, branch, text, doi, bits, replies, escaped, template,
                   pureVars>>

\* scrape_citation_bits(url): one page fetch, answered or failed
page_fetch ==
    /\ pc = "scrape"
    /\ \/ \E page \in Pages :
            /\ callLog' = Append(callLog, [call |-> "page", failure |-> "none"])
            /\ bits' = scrape_citation_bits(page, Strip(text))
            /\ pc' = "scraped"
            /\ UNCHANGED exc
       \/ \E f \in PageFailures : \E e \in Raised(f) :
            /\ callLog' = Append(callLog, [call |-> "page", failure |-> f])
            /\ exc' = e
            /\ pc' = "except"
            /\ UNCHANGED bits
    /\ UNCHANGED <<handler, branch, text, doi, meta, replies, escaped, template,
                   pureVars>>

\* a slip: any citation_doi value is sent to the registry, accepted or not
auto_cite_page_doi_Unchecked ==
    /\ pc = "scraped"
    /\ Truthy(bits.doi_meta)
    /\ doi' = bits.doi_meta
    /\ pc' = "lookup"
    /\ UNCHANGED <<handler, branch, text, callLog, bits, meta, exc, replies,
                   escaped, template, pureVars>>

\* auto_cite 398-401: an identifier in the page's citation_doi goes to the
\* registry
auto_cite_page_doi ==
    /\ pc = "scraped"
    /\ Truthy(bits.doi_meta) /\ extract_doi(bits.doi_meta) # None
    /\ doi' = extract_doi(bits.doi_meta)
    /\ pc' = "lookup"
    /\ UNCHANGED <<handler, branch, text, callLog, bits, meta, exc, replies,
                   escaped, template, pureVars>>

\* auto_cite 423-434: the reference of a page without an identifier
auto_cite_page_reply ==
    /\ pc = "scraped"
    /\ ~(Truthy(bits.doi_meta) /\ extract_doi(bits.doi_meta) # None)
    /\ LET tpl == auto_cite_page_template(bits)
       IN /\ template' = tpl
          /\ replies' = Append(replies,
                 HtmlReply(RefFromBits(tpl, bits, Strip(text)),
                           build_intext(bits.author_display, bits.year)))
    /\ pc' = "done"
    /\ UNCHANGED <<handler, branch, text, doi, callLog, bits, meta, exc, escaped,
                   pureVars>>

\* the template the handler picks for the registry record it holds
TemplateAtSite(m) ==
    IF handler = "citedoi" THEN citedoi_template(m)
    ELSE IF branch = "doi" THEN auto_cite_doi_template(m)
    ELSE auto_cite_page_doi_template(m)

\* 331-348, 366-383, 402-420: the reference of a registry record
meta_reply ==
    /\ pc = "have_meta"
    /\ LET tpl == TemplateAtSite(meta)
       IN /\ template' = tpl
          /\ replies' = Append(replies,
                 HtmlReply(RefFromMeta(tpl, meta), IntextFromMeta(meta)))
    /\ pc' = "done"
    /\ UNCHANGED <<handler, branch, text, doi, callLog, bits, meta, exc, escaped,
                   pureVars>>

\* citedoi 349-353 and auto_cite 384-388: the only except clause of the
\* identifier routes
doi_except ==
    /\ pc = "except" /\ branch \in {"citedoi", "doi"}
    /\ IF IsInstance(exc, "RequestException")
       THEN /\ replies' = Append(replies,
                   TextReply(IF branch = "citedoi" THEN MsgDoiFailedCommand
                             ELSE MsgDoiFailedAuto, exc))
            /\ UNCHANGED escaped
       ELSE escaped' = TRUE /\ UNCHANGED replies
    /\ pc' = "done"
    /\ UNCHANGED <<handler, branch, text, doi, callLog, bits, meta, exc, template,
                   pureVars>>

\* auto_cite 435-454: the except clauses of the URL route, first match wins
url_except ==
    /\ pc = "except" /\ branch = "url"
    /\ replies' = Append(replies,
           TextReply(IF IsInstance(exc, "HTTPError") THEN MsgSiteRefused
                     ELSE IF IsInstance(exc, "ConnectionError") THEN MsgNetworkError
                     ELSE IF IsInstance(exc, "Timeout") THEN MsgTimedOut
                     ELSE MsgApology, ""))
    /\ pc' = "done"
    /\ UNCHANGED <<handler, branch, text, doi, callLog, bits, meta, exc, escaped,
                   template, pureVars>>

Next ==
    \/ Receive
    \/ auto_cite_route
    \/ citedoi_route
    \/ registry_lookup
    \/ page_fetch
    \/ auto_cite_page_doi
    \/ auto_cite_page_reply
    \/ meta_reply
    \/ doi_except
    \/ url_except

Spec == Init /\ [][Next]_vars

\* ------------------------------------------------------------------
\* Properties of a request
\* ------------------------------------------------------------------
\* the request ended with a (reference, in-text) pair
SentReference == pc = "done" /\ replies # <<>> /\ replies[1].mode = "html"

\* the layout a reference was written in, read off its text
LayoutOf(ref) ==
    IF Contains(ref, <<" ", "w", "e", "b", "s", "i", "t", "e", ",", " ", "a", "c", "c", "e", "s", "s", "e", "d", " ">>) THEN "web"
    ELSE IF Contains(ref, <<"'", ",", " ", "<", "i", ">">>) THEN "journal_article"
    ELSE "working_paper"

\* the selection rule of the specification
SelectTemplate(has_container, has_volume_or_pages, has_series) ==
    IF has_container /\ has_volume_or_pages THEN "journal_article"
    ELSE IF has_series THEN "working_paper"
    ELSE "web"

\* the three facts about the record a reference was formatted from: the
\* registry record when there is one, else the scraped record (which has no
\* container, volume or pages, and a series label exactly when a
\* working-paper number was found)
RecordFacts ==
    IF meta # NoMeta
    THEN [container |-> Truthy(meta.container),
          volume_or_pages |-> Truthy(meta.volume) \/ Truthy(meta.pages),
          series |-> Truthy(meta.series)]
    ELSE [container |-> FALSE,
          volume_or_pages |-> FALSE,
          series |-> Truthy(bits.nber_no)]

\* C1: every reference sent, on each of the four routes, is written in the
\* template that the selection rule gives for (has_container,
\* has_volume_or_pages, has_series) of its record.
C1_TemplateIsSelectedFromRecord ==
    SentReference =>
        LET chosen == SelectTemplate(RecordFacts.container,
                                     RecordFacts.volume_or_pages,
                                     RecordFacts.series)
        IN template = chosen /\ LayoutOf(replies[1].ref) = chosen

\* C1 witness: a page-discovered identifier whose record has a container
\* but neither volume nor pages, and a series label, sent as a working paper
C1_Witness ==
    /\ SentReference /\ branch = "url" /\ meta # NoMeta
    /\ Truthy(meta.container) /\ ~Truthy(meta.volume) /\ ~Truthy(meta.pages)
    /\ Truthy(meta.series)
    /\ template = "working_paper"

CallKinds == [i \in 1..Len(callLog) |-> callLog[i].call]

\* C2: the outbound calls of a request are none, [registry], [page] or
\* [page, registry]; a registry call after a page fetch needs an accepted
\* identifier in the page; a message with an identifier fetches no page;
\* and only the last call of a request can have failed.
C2_CallSequence ==
    /\ CallKinds \in {<<>>, <<"registry">>, <<"page">>, <<"page", "registry">>}
    /\ CallKinds = <<"page", "registry">> =>
          /\ bits # NoBits
          /\ Truthy(bits.doi_meta)
          /\ extract_doi(bits.doi_meta) # None
    /\ extract_doi(Strip(text)) # None =>
          \A i \in 1..Len(callLog) : callLog[i].call # "page"
    /\ \A i \in 1..(Len(callLog) - 1) : callLog[i].failure = "none"
    /\ (callLog # <<>> /\ callLog[Len(callLog)].failure # "none") =>
          pc \in {"except", "done"}

\* C2 witness: a request that fetched the page and then the registry, and
\* ended after the registry call failed
C2_Witness ==
    /\ pc = "done"
    /\ CallKinds = <<"page", "registry">>
    /\ callLog[2].failure = "read_timeout"

\* ------------------------------------------------------------------
\* Failures and replies
\* ------------------------------------------------------------------
\* the message the specification assigns to each way a page fetch fails
PageFailureMessage(failure) ==
    CASE failure = "status" -> MsgSiteRefused
      [] failure = "connect_fail" -> MsgNetworkError
      [] failure = "connect_timeout" -> MsgTimedOut
      [] failure = "read_timeout" -> MsgTimedOut

PageFetchFailed ==
    /\ pc = "done" /\ branch = "url" /\ Len(callLog) = 1
    /\ callLog[1].call = "page" /\ callLog[1].failure \in TransportFailures

\* C3: a failed page fetch is answered with the message of its kind: error
\* status - supply a DOI; connection failure - network error; timeout, while
\* connecting or while reading - timed out; and the three messages differ.
C3_PageFailureMessages ==
    /\ Cardinality({MsgSiteRefused, MsgNetworkError, MsgTimedOut}) = 3
    /\ PageFetchFailed =>
          /\ Len(replies) = 1
          /\ replies[1].msg = PageFailureMessage(callLog[1].failure)

RegistryLookupFailed ==
    /\ pc = "done" /\ callLog # <<>>
    /\ callLog[Len(callLog)].call = "registry"
    /\ callLog[Len(callLog)].failure # "none"

\* C4: after a failed registry lookup, on each of the three routes that
\* reach the registry, what the user is told is the registry-failure
\* message (paste the page link instead), never a page-failure message.
C4_RegistryFailureMessage ==
    RegistryLookupFailed =>
        \A i \in 1..Len(replies) :
            /\ replies[i].msg \in {MsgDoiFailedAuto, MsgDoiFailedCommand}
            /\ replies[i].msg \notin {MsgSiteRefused, MsgNetworkError, MsgTimedOut}

\* a message with an identifier, /citedoi with an identifier, or a message
\* that starts with http:// or https://
IsCitationRequest ==
    LET t == Strip(text)
    IN \/ handler = "citedoi" /\ extract_doi(t) # None
       \/ /\ handler = "auto_cite" /\ t # <<>> /\ ~StartsWith(t, <<"/">>)
          /\ \/ extract_doi(t) # None
             \/ StartsWith(Lower(t), <<"h", "t", "t", "p", ":", "/", "/">>)
             \/ StartsWith(Lower(t), <<"h", "t", "t", "p", "s", ":", "/", "/">>)

\* C5: a citation request ends with exactly one reply and no exception
\* leaves the handler; a fault that is not a transport error is answered
\* with the generic apology.
C5_OneReplyNoEscape ==
    (pc = "done" /\ IsCitationRequest) =>
        /\ Len(replies) = 1
        /\ ~escaped
        /\ (exc # "none" /\ ~IsInstance(exc, "RequestException")) =>
              replies[1].msg = MsgApology

\* ------------------------------------------------------------------
\* The text of a reference
\* ------------------------------------------------------------------
\* what stands before the year: the author slot
AuthorSlot(ref) == Slice(ref, 1, Find(ref, <<" ", "(">>) - 1)

\* what stands between the quotes (journal article) or the emphasis tags
TitleSlot(ref) ==
    IF LayoutOf(ref) = "journal_article"
    THEN Slice(ref, Find(ref, <<")", " ", "'">>) + 3, Find(ref, <<"'", ",", " ", "<", "i", ">">>) - 1)
    ELSE Slice(ref, Find(ref, <<"<", "i", ">">>) + 3, Find(ref, <<"<", "/", "i", ">">>) - 1)

\* the lead name of "(Lead Year)"
IntextLead(intext) == Slice(intext, 2, Find(intext, <<" ">>) - 1)

IsBlank(s) == Strip(s) = <<>>

\* C7: in every pair sent, the title slot and the author slot of the
\* reference, and the lead name of the in-text form, are not empty.
C7_TitleAndAuthorNeverEmpty ==
    SentReference =>
        /\ ~IsBlank(TitleSlot(replies[1].ref))
        /\ ~IsBlank(AuthorSlot(replies[1].ref))
        /\ ~IsBlank(IntextLead(replies[1].intext))

Count(s, c) == Cardinality({i \in 1..Len(s) : s[i] = c})

\* every "&" of s starts one of the three entities html_escape writes
AmpersandsAreEntities(s) ==
    \A i \in 1..Len(s) :
        s[i] = "&" => \/ OccursAt(s, <<"&", "a", "m", "p", ";">>, i)
                      \/ OccursAt(s, <<"&", "l", "t", ";">>, i)
                      \/ OccursAt(s, <<"&", "g", "t", ";">>, i)

\* the only tags of s are one <i> and one </i>
OnlyEmphasisMarkup(s) ==
    /\ Count(s, "<") = 2 /\ Count(s, ">") = 2
    /\ \A i \in 1..Len(s) :
          s[i] = "<" => OccursAt(s, <<"<", "i", ">">>, i) \/ OccursAt(s, <<"<", "/", "i", ">">>, i)
    /\ Find(s, <<"<", "i", ">">>) > 0 /\ Find(s, <<"<", "i", ">">>) < Find(s, <<"<", "/", "i", ">">>)
    /\ AmpersandsAreEntities(s)

\* C8: in every pair sent, the reference has no unescaped "<", ">" or "&"
\* but the template's own <i>...</i>, and the in-text form has none.
C8_FieldsAreEscaped ==
    SentReference =>
        /\ OnlyEmphasisMarkup(replies[1].ref)
        /\ Count(replies[1].intext, "<") = 0
        /\ Count(replies[1].intext, ">") = 0
        /\ AmpersandsAreEntities(replies[1].intext)

\* ------------------------------------------------------------------
\* The formatters on their own: each is called once on one argument list
\* ------------------------------------------------------------------
Locators == {<<"h", "t", "t", "p", ":", "/", "/", "a", ".", "b", "/", "x">>, <<"h", "t", "t", "p", "s", ":", "/", "/", "d", "o", "i", ".", "o", "r", "g", "/", "1", "0", ".", "1", "2", "3", "4", "/", "a", "b">>}

FormatterArgs ==
    [author_display : {None, <<"B", ",", " ", "A", ".">>},
     year : {0, 2020},
     title : {None, <<"T">>},
     site_name : {None, <<"S">>},
     series : {None, <<"N">>},
     publisher : {None, <<"P">>},
     journal : {None, <<"J">>},
     volume : {None, <<"1">>},
     issue : {None, <<"2">>},
     pages : {None, <<"3">>},
     url : Locators]

InitFmt == Idle /\ arg \in FormatterArgs /\ res = <<>>

call_build_rmit_web ==
    /\ res = <<>>
    /\ res' = <<[fn |-> "build_rmit_web",
                 out |-> build_rmit_web(arg.author_display, arg.year, arg.title,
                                        arg.site_name, arg.url)]>>
    /\ UNCHANGED <<arg, handlerVars>>

call_build_rmit_working_paper ==
    /\ res = <<>>
    /\ res' = <<[fn |-> "build_rmit_working_paper",
                 out |-> build_rmit_working_paper(arg.author_display, arg.year,
                            arg.title, arg.series, arg.publisher, arg.url)]>>
    /\ UNCHANGED <<arg, handlerVars>>

call_build_rmit_journal_article ==
    /\ res = <<>>
    /\ res' = <<[fn |-> "build_rmit_journal_article",
                 out |-> build_rmit_journal_article(arg.author_display, arg.year,
                            arg.title, arg.journal, arg.volume, arg.issue,
                            arg.pages, arg.url)]>>
    /\ UNCHANGED <<arg, handlerVars>>

NextFmt ==
    \/ call_build_rmit_web
    \/ call_build_rmit_working_paper
    \/ call_build_rmit_journal_article

SpecFmt == InitFmt /\ [][NextFmt]_vars

IsSeparator(c) == c \in {",", "."}

\* two separators with nothing but blanks between them
HasAdjacentSeparators(s) ==
    \E i \in 1..Len(s) : \E j \in (i + 1)..Len(s) :
        /\ IsSeparator(s[i]) /\ IsSeparator(s[j])
        /\ \A k \in (i + 1)..(j - 1) : IsSpace(s[k])

NoDanglingSeparators(s) ==
    /\ ~HasAdjacentSeparators(s)
    /\ ~Contains(s, <<"'", "'">>)
    /\ ~Contains(s, <<"<", "i", ">", "<", "/", "i", ">">>)
    /\ s # <<>> /\ ~IsSpace(s[1]) /\ ~IsSeparator(s[1])

OnlyLocatorPresent ==
    /\ arg.author_display = None /\ arg.year = 0 /\ arg.title = None
    /\ arg.site_name = None /\ arg.series = None /\ arg.publisher = None
    /\ arg.journal = None /\ arg.volume = None /\ arg.issue = None
    /\ arg.pages = None

\* C6: each formatter, called with a locator and every optional field
\* absent, returns a non-empty reference that ends in a period, contains
\* the locator and has no dangling separators.
C6_FormattersTolerateAbsence ==
    (res # <<>> /\ OnlyLocatorPresent) =>
        /\ res[1].out # <<>>
        /\ EndsWith(res[1].out, <<".">>)
        /\ Contains(res[1].out, arg.url)
        /\ NoDanglingSeparators(res[1].out)

\* ------------------------------------------------------------------
\* The identifier extractor on its own
\* ------------------------------------------------------------------
\* identifiers: "10." + 4 to 9 digits + "/" + token
Identifiers ==
    {DoiText, <<"1", "0", ".", "1", "2", "3", "4", "5", "6", "7", "8", "9", "/", "x", "-", "1">>, <<"1", "0", ".", "1", "0", "1", "6", "/", "j", ".", "m", ".", "2", "0", "2", "3", ".", "1", "0">>, <<"1", "0", ".", "5", "5", "5", "5", "/", "a", "(", "b", ")", "c">>}

\* near misses: three digits, ten digits, no slash, no token
NonIdentifiers ==
    {<<"h", "i">>, <<"1", "0", ".", "1", "2", "3", "/", "a", "b">>, <<"1", "0", ".", "1", "2", "3", "4", "5", "6", "7", "8", "9", "0", "/", "a", "b">>, <<"1", "0", ".", "1", "2", "3", "4", "-", "a", "b">>, <<"1", "0", ".", "1", "2", "3", "4", "/">>}

\* what stands before the identifier
Before == {<<>>, <<"<">>, <<"s", "e", "e", " ">>, <<"d", "o", "i", ":">>, <<"\"">>, <<"h", "t", "t", "p", "s", ":", "/", "/", "d", "o", "i", ".", "o", "r", "g", "/">>}

\* what stands after it
After == {<<>>, <<">">>, <<".">>, <<" ">>, <<".", " ", "N", "e", "x", "t">>, <<"\"">>, <<" ", "1", "0", ".", "5", "6", "7", "8", "/", "z", "z">>}

ExtractorArgs == [before : Before, id : Identifiers \cup NonIdentifiers, after : After]

InitDoi == Idle /\ arg \in ExtractorArgs /\ res = <<>>

call_extract_doi ==
    /\ res = <<>>
    /\ res' = <<extract_doi(arg.before \o arg.id \o arg.after)>>
    /\ UNCHANGED <<arg, handlerVars>>

NextDoi == call_extract_doi

SpecDoi == InitDoi /\ [][NextDoi]_vars

\* the text holds no identifier at all: a near miss, not completed by what
\* follows it ("10.1234/" followed by a period has the token ".")
HoldsNoIdentifier ==
    /\ arg.id \in NonIdentifiers
    /\ arg.after # <<" ", "1", "0", ".", "5", "6", "7", "8", "/", "z", "z">>
    /\ arg.id = <<"1", "0", ".", "1", "2", "3", "4", "/">> => arg.after \notin {<<".">>, <<".", " ", "N", "e", "x", "t">>}

\* C9: from a text that holds an identifier, extract_doi returns exactly
\* the identifier, without the angle brackets, quotes or sentence-ending
\* period around it; from a text that holds none it returns None.
C9_ExtractsExactIdentifier ==
    res # <<>> =>
        /\ arg.id \in Identifiers => res[1] = arg.id
        /\ HoldsNoIdentifier => res[1] = None

\* ------------------------------------------------------------------
\* The author-name normaliser on its own, applied to its own result
\* ------------------------------------------------------------------
MaxNameWords == 3

NameWords ==
    {<<"G", "r", "e", "t", "a">>, <<"T", "h", "u", "n", "b", "e", "r", "g">>, <<"1">>, <<"L", "i", ",">>, <<"&">>, <<"U", "n", "i", "v", "e", "r", "s", "i", "t", "y">>,
     <<"W", "o", "r", "l", "d">>, <<"H", "e", "a", "l", "t", "h">>, <<"O", "r", "g", "a", "n", "i", "z", "a", "t", "i", "o", "n">>}

WordLists == UNION {[1..n -> NameWords] : n \in 1..MaxNameWords}

\* the words with single blanks between them, with or without a blank
\* before and after; the empty string and None
NameInputs ==
    {None, <<>>}
    \cup {l \o Join(<<" ">>, ws) \o t :
            ws \in WordLists, l \in {<<>>, <<" ">>}, t \in {<<>>, <<" ">>}}

InitName == Idle /\ arg \in NameInputs /\ res = <<>>

call_format_person_name ==
    /\ Len(res) < 2
    /\ res' = Append(res, format_person_name(IF res = <<>> THEN arg
                                             ELSE res[Len(res)]))
    /\ UNCHANGED <<arg, handlerVars>>

NextName == call_format_person_name

SpecName == InitName /\ [][NextName]_vars

\* C10: format_person_name applied to its own result returns that result.
C10_NormalizationIdempotent ==
    Len(res) = 2 => res[2] = res[1]

\* the name is one the specification says is kept as it is: it contains
\* "University", "&" or a comma, or is "World Health Organization"
KeptAsIs(name) ==
    \/ Contains(name, <<"U", "n", "i", "v", "e", "r", "s", "i", "t", "y">>)
    \/ Contains(name, <<"&">>)
    \/ Contains(name, <<",">>)
    \/ name = <<"W", "o", "r", "l", "d", " ", "H", "e", "a", "l", "t", "h", " ", "O", "r", "g", "a", "n", "i", "z", "a", "t", "i", "o", "n">>

\* C11: format_person_name returns its input unchanged when the input
\* contains "University" (first word included), "&" or a comma, or is
\* "World Health Organization"; and it turns "Greta Thunberg" into
\* "Thunberg, G.".  Stated for names written without blanks around them
\* (with such blanks the result is the stripped name, changed already).
C11_OrganisationsKeptPersonsRewritten ==
    (res # <<>> /\ Truthy(arg) /\ arg = Strip(arg)) =>
        /\ KeptAsIs(arg) => res[1] = arg
        /\ arg = <<"G", "r", "e", "t", "a", " ", "T", "h", "u", "n", "b", "e", "r", "g">> => res[1] = <<"T", "h", "u", "n", "b", "e", "r", "g", ",", " ", "G", ".">>

====
